---- MODULE Spec2Model ----
(***************************************************************************)
(* A model of llm-compass: the ingestion of the benchmark dictionary, the  *)
(* model metadata and the benchmark scores into the SQLite tables          *)
(* (data/ingestion.py, data/read_source.py, data/models.py), the FAISS     *)
(* index kept by the Embedding class (data/embedding.py) and the ranking   *)
(* tool of the agent (agentic_core/tools.py).                              *)
(*                                                                         *)
(* Strings are sequences of one-character strings, so that str.strip, the  *)
(* f-string keys of the FK lookup and the sort of the sheet rows are       *)
(* computed as the code computes them.  An Optional value is None (<<>>)   *)
(* or Some(x) (<<x>>).                                                     *)
(***************************************************************************)
EXTENDS Integers, Sequences, FiniteSets, Bags, TLC

VARIABLES
    sheet,        \* rows of the benchmark sheet read by read_source.py (the environment)
    benchTable,   \* table benchmark_dictionary
    dictCall,     \* the last ingest_benchmark_dictionary call: its mode, the records it
                  \* was given (normalized in place) and whether its transaction committed
    index,        \* Embedding.index of the ingesting process's Embedding instance
    disk,         \* the index artifact at settings.get_faiss_path()
    genPc,        \* position of the generate_index call in progress
    genIds,       \* doc_ids of the generate_index call in progress
    genOutcome,   \* how the last generate_index call ended
    respWidth,    \* width of the vectors in the provider's last response to a build
    built,        \* history: some generate_index call of this instance has returned normally
    readerIndex,  \* Embedding.index of a second Embedding instance (another process)
    searchResult, \* what the last search_index call did
    llmTable,     \* table llm_metadata
    scoreTable,   \* table benchmark_scores, a bag of rows (the rows' own ids left out)
    scoreCall,    \* the ingest_benchmark_scores call that has just ended: its arguments,
                  \* the caller's records as the call left them, and how it ended
    scoresBulk,   \* history: ingest_benchmark_scores has been called with update=False
    rankCall,     \* the last retrieve_and_rank_models call: its arguments and result
    normCall,     \* the last normalize_model call: its argument, what it returned and
                  \* its local variables at the return
    apiKeys,      \* what _api_keys() returns: the set of the accepted API keys
    sessions,     \* _sessions of routers/query.py: session id to state dict
    apiCall,      \* the last request to the query router: the request, the store's
                  \* entry before it, how the graph ended, and the response
    graphPc,      \* the node of the compiled graph that runs next
    graphTrace,   \* the nodes that have run, in order
    graphState    \* the state of the run

dictVars == <<sheet, benchTable, dictCall>>
embVars == <<index, disk, genPc, genIds, genOutcome, respWidth, built>>
readVars == <<readerIndex, searchResult>>
scoreVars == <<llmTable, scoreTable, scoreCall, scoresBulk>>
rankVars == <<rankCall>>
normVars == <<normCall>>
apiVars == <<apiKeys, sessions, apiCall>>
graphVars == <<graphPc, graphTrace, graphState>>
vars == <<dictVars, embVars, readVars, scoreVars, rankVars, normVars, apiVars, graphVars>>

\* What the actions of one part of the program leave alone.
outsideIndex == <<scoreVars, rankVars, normVars, apiVars, graphVars>>
outsideScores == <<dictVars, embVars, readVars, rankVars, normVars, apiVars, graphVars>>
outsideRank == <<dictVars, embVars, readVars, scoreVars, normVars, apiVars, graphVars>>

----------------------------------------------------------------------------
(* Values *)

None == <<>>
Some(x) == <<x>>

Range(s) == {s[i] : i \in 1..Len(s)}

\* Code points of the characters the model's strings are made of.
Code(c) ==
    CASE c = " " -> 32
      [] c = "#" -> 35
      [] c = "a" -> 97
      [] c = "b" -> 98
      [] c = "c" -> 99
      [] c = "m" -> 109
      [] c = "n" -> 110
      [] c = "v" -> 118
      [] c = "x" -> 120
      [] c = "y" -> 121

\* Python's str < str: lexicographic by code point.
RECURSIVE StrLess(_, _)
StrLess(s, t) ==
    IF t = <<>> THEN FALSE
    ELSE IF s = <<>> THEN TRUE
    ELSE IF Code(Head(s)) # Code(Head(t)) THEN Code(Head(s)) < Code(Head(t))
    ELSE StrLess(Tail(s), Tail(t))

\* str.strip(): leading and trailing whitespace removed.
RECURSIVE lstrip(_)
lstrip(s) == IF s # <<>> /\ Head(s) = " " THEN lstrip(Tail(s)) ELSE s

RECURSIVE rstrip(_)
rstrip(s) ==
    IF s # <<>> /\ s[Len(s)] = " " THEN rstrip(SubSeq(s, 1, Len(s) - 1)) ELSE s

strip(s) == rstrip(lstrip(s))

\* `x if x else ""` on an Optional[str]: None and "" both give "".
OrEmpty(v) == IF v = None THEN <<>> ELSE v[1]

----------------------------------------------------------------------------
(* Normalizer (the MVP placeholder implementations) *)

normalize_model_names(raw_names) ==
    [i \in 1..Len(raw_names) |-> strip(raw_names[i])]

normalize_benchmark_names(raw_names, raw_variants) ==
    [i \in 1..Len(raw_names) |-> <<strip(raw_names[i]), raw_variants[i]>>]

----------------------------------------------------------------------------
(* normalizer.py: normalize_model *)

LowerSeq == <<"a", "b", "c", "d", "e", "f", "g", "h", "i", "j", "k", "l", "m", "n", "o", "p", "q", "r", "s", "t", "u", "v", "w", "x", "y", "z">>
UpperSeq == <<"A", "B", "C", "D", "E", "F", "G", "H", "I", "J", "K", "L", "M", "N", "O", "P", "Q", "R", "S", "T", "U", "V", "W", "X", "Y", "Z">>
LowerChars == Range(LowerSeq)
UpperChars == Range(UpperSeq)
DigitChars == {"0", "1", "2", "3", "4", "5", "6", "7", "8", "9"}

\* \w of the regular expressions: letters, digits and the underscore.
WordChars == LowerChars \cup UpperChars \cup DigitChars \cup {"_"}

ToLower(c) ==
    IF c \in UpperChars THEN LowerSeq[CHOOSE i \in 1..26 : UpperSeq[i] = c] ELSE c

\* str.lower()
lower(s) == [i \in 1..Len(s) |-> ToLower(s[i])]

\* The character at position p, or "" outside the string.
At(s, p) == IF p \in 1..Len(s) THEN s[p] ELSE ""

\* \b between positions p - 1 and p.
WordBoundary(s, p) == (At(s, p - 1) \in WordChars) # (At(s, p) \in WordChars)

\* \d{n} at position p.
DigitsAt(s, p, n) == \A i \in p..(p + n - 1) : At(s, i) \in DigitChars

\* The literal lit at position p; with re.IGNORECASE, lit being lower case.
StartsAt(s, p, lit) == \A i \in 1..Len(lit) : At(s, p + i - 1) = lit[i]
StartsAtIgnoreCase(s, p, lit) == \A i \in 1..Len(lit) : ToLower(At(s, p + i - 1)) = lit[i]

\* s[p:q], q excluded.
Slice(s, p, q) == SubSeq(s, p, q - 1)

Least(S) == CHOOSE x \in S : \A y \in S : x <= y
Greatest(S) == CHOOSE x \in S : \A y \in S : x >= y

\* str.replace(old, new); old is not empty.
RECURSIVE replace(_, _, _)
replace(s, old, new) ==
    IF s = <<>> THEN <<>>
    ELSE IF StartsAt(s, 1, old)
         THEN new \o replace(SubSeq(s, Len(old) + 1, Len(s)), old, new)
    ELSE <<Head(s)>> \o replace(Tail(s), old, new)

\* s with a space put in before every position of G.
RECURSIVE InsertSpacesFrom(_, _, _)
InsertSpacesFrom(s, G, i) ==
    IF i > Len(s) THEN <<>>
    ELSE (IF i \in G THEN <<" ">> ELSE <<>>) \o <<s[i]>> \o InsertSpacesFrom(s, G, i + 1)

\* _CAMEL_PASSES, one substitution after the other: where a pattern matches,
\* \1 and \2 are put back with a space between them.
CamelPasses(s) ==
    LET \* ([a-z])([A-Z])
        Pass1(t) == InsertSpacesFrom(t, {i \in 1..Len(t) :
                        At(t, i - 1) \in LowerChars /\ t[i] \in UpperChars}, 1)
        \* ([A-Z]{2,})([A-Z][a-z])
        Pass2(t) == InsertSpacesFrom(t, {i \in 1..Len(t) :
                        /\ At(t, i - 2) \in UpperChars /\ At(t, i - 1) \in UpperChars
                        /\ t[i] \in UpperChars /\ At(t, i + 1) \in LowerChars}, 1)
        \* (\d)([A-Z][a-z])
        Pass3(t) == InsertSpacesFrom(t, {i \in 1..Len(t) :
                        /\ At(t, i - 1) \in DigitChars
                        /\ t[i] \in UpperChars /\ At(t, i + 1) \in LowerChars}, 1)
        \* ([a-np-z])(\d)
        Pass4(t) == InsertSpacesFrom(t, {i \in 1..Len(t) :
                        At(t, i - 1) \in LowerChars \ {"o"} /\ t[i] \in DigitChars}, 1)
    IN Pass4(Pass3(Pass2(Pass1(s))))

\* YYYY-MM-DD at position p.
IsoDateAt(s, p) ==
    /\ DigitsAt(s, p, 4) /\ At(s, p + 4) = "-"
    /\ DigitsAt(s, p + 5, 2) /\ At(s, p + 7) = "-"
    /\ DigitsAt(s, p + 8, 2)

\* DATE_PATTERNS: where each pattern matches in s, leftmost first, as
\* [start, end) pairs; a pattern matches in one way at a position.
\*   \((\d{4})(\d{2})(\d{2})\)
DateMatches1(s) ==
    {<<p, p + 10>> : p \in {q \in 1..Len(s) :
        At(s, q) = "(" /\ DigitsAt(s, q + 1, 8) /\ At(s, q + 9) = ")"}}

\*   \((\d{4}-\d{2}-\d{2})\)
DateMatches2(s) ==
    {<<p, p + 12>> : p \in {q \in 1..Len(s) :
        At(s, q) = "(" /\ IsoDateAt(s, q + 1) /\ At(s, q + 11) = ")"}}

\*   \b(\d{4}-\d{2}-\d{2})\b
DateMatches3(s) ==
    {<<p, p + 10>> : p \in {q \in 1..Len(s) :
        WordBoundary(s, q) /\ IsoDateAt(s, q) /\ WordBoundary(s, q + 10)}}

\*   \((\d{1,2})/(\d{2,4})\)
DateMatches4(s) ==
    {<<p, p + m + y + 3>> : <<p, m, y>> \in {t \in (1..Len(s)) \X (1..2) \X (2..4) :
        /\ At(s, t[1]) = "("
        /\ DigitsAt(s, t[1] + 1, t[2]) /\ At(s, t[1] + 1 + t[2]) = "/"
        /\ DigitsAt(s, t[1] + 2 + t[2], t[3])
        /\ At(s, t[1] + 2 + t[2] + t[3]) = ")"}}

\* The text re.search finds: the leftmost of the matches.
FirstMatch(s, matches) ==
    LET p == Least({m[1] : m \in matches})
        m == CHOOSE x \in matches : x[1] = p
    IN Slice(s, m[1], m[2])

\* The lambda of the last of DATE_PATTERNS on the matched text g:
\* f"{year}-{month.zfill(2)}", the year with "20" before it unless it has 4 digits.
DateFormat4(g) ==
    LET slash == CHOOSE i \in 1..Len(g) : g[i] = "/"
        month == Slice(g, 2, slash)
        year == Slice(g, slash + 1, Len(g))
    IN (IF Len(year) = 4 THEN year ELSE <<"2", "0">> \o year)
       \o <<"-">> \o (IF Len(month) < 2 THEN <<"0">> ELSE <<>>) \o month

\* Lines 112-118: [date_val, name]; date_val is <<>> for None.
DateStep(name) ==
    IF DateMatches1(name) # {}
    THEN LET g == FirstMatch(name, DateMatches1(name))
         IN [date_val |-> Slice(g, 2, 6) \o <<"-">> \o Slice(g, 6, 8) \o <<"-">> \o Slice(g, 8, 10),
             name |-> replace(name, g, <<" ">>)]
    ELSE IF DateMatches2(name) # {}
    THEN LET g == FirstMatch(name, DateMatches2(name))
         IN [date_val |-> Slice(g, 2, 12), name |-> replace(name, g, <<" ">>)]
    ELSE IF DateMatches3(name) # {}
    THEN LET g == FirstMatch(name, DateMatches3(name))
         IN [date_val |-> g, name |-> replace(name, g, <<" ">>)]
    ELSE IF DateMatches4(name) # {}
    THEN LET g == FirstMatch(name, DateMatches4(name))
         IN [date_val |-> DateFormat4(g), name |-> replace(name, g, <<" ">>)]
    ELSE [date_val |-> <<>>, name |-> name]

\* The variant names.
Standard == <<"s", "t", "a", "n", "d", "a", "r", "d">>
Reasoning == <<"r", "e", "a", "s", "o", "n", "i", "n", "g">>
VariantKeywords == << <<"t", "h", "i", "n", "k", "i", "n", "g">>, <<"i", "n", "s", "t", "r", "u", "c", "t">>, <<"p", "r", "e", "v", "i", "e", "w">> >>

\* re.search(r"\bo\d|deepseek[- ]?r1", raw_name, re.IGNORECASE), line 122.
IsReasoningClass(raw_name) ==
    \E p \in 1..Len(raw_name) :
        \/ /\ WordBoundary(raw_name, p)
           /\ ToLower(raw_name[p]) = "o"
           /\ At(raw_name, p + 1) \in DigitChars
        \/ /\ StartsAtIgnoreCase(raw_name, p, <<"d", "e", "e", "p", "s", "e", "e", "k">>)
           /\ \/ StartsAtIgnoreCase(raw_name, p + 8, <<"r", "1">>)
              \/ /\ At(raw_name, p + 8) \in {"-", " "}
                 /\ StartsAtIgnoreCase(raw_name, p + 9, <<"r", "1">>)

\* Where \bkw\b matches in s, ignoring case.
KeywordAt(s, p, kw) ==
    WordBoundary(s, p) /\ StartsAtIgnoreCase(s, p, kw) /\ WordBoundary(s, p + Len(kw))

\* re.sub(r"\bkw\b", " ", s, flags=re.IGNORECASE) from position p on.
RECURSIVE SubKeywordFrom(_, _, _)
SubKeywordFrom(s, p, kw) ==
    IF p > Len(s) THEN <<>>
    ELSE IF KeywordAt(s, p, kw) THEN <<" ">> \o SubKeywordFrom(s, p + Len(kw), kw)
    ELSE <<s[p]>> \o SubKeywordFrom(s, p + 1, kw)

\* The loop of lines 125-133 from the i-th keyword on.
RECURSIVE KeywordLoop(_, _)
KeywordLoop(name, i) ==
    IF i > Len(VariantKeywords) THEN [variant_val |-> Standard, name |-> name]
    ELSE IF \E p \in 1..Len(name) : KeywordAt(name, p, VariantKeywords[i])
         THEN [variant_val |-> VariantKeywords[i],
               name |-> SubKeywordFrom(name, 1, VariantKeywords[i])]
    ELSE KeywordLoop(name, i + 1)

\* Lines 121-133 with the keywords looked for before the reasoning class.
VariantStepKeywordFirst(raw_name, name) ==
    IF KeywordLoop(name, 1).variant_val # Standard THEN KeywordLoop(name, 1)
    ELSE IF IsReasoningClass(raw_name) THEN [variant_val |-> Reasoning, name |-> name]
    ELSE KeywordLoop(name, 1)

\* Lines 121-133: [variant_val, name].
VariantStep(raw_name, name) ==
    IF IsReasoningClass(raw_name) THEN [variant_val |-> Reasoning, name |-> name]
    ELSE KeywordLoop(name, 1)

\* \d+ from position p: the positions after one digit, after two, ...
DigitRunEnds(s, p) == {q \in (p + 1)..(Len(s) + 1) : DigitsAt(s, p, q - p)}

\* \d+x?\d*(?:\.\d+)?[bBmMkK](?:[/-][aA]?\d+[bBmMkK])?\b from position p:
\* where it may end.
SizeEnds(s, p) ==
    LET Units == {"b", "B", "m", "M", "k", "K"}
        \* (?:[/-][aA]?\d+[bBmMkK])? from position e
        Suffix(e) ==
            IF At(s, e) \notin {"/", "-"} THEN {}
            ELSE {h + 1 : h \in {x \in UNION {DigitRunEnds(s, g) :
                                       g \in IF At(s, e + 1) \in {"a", "A"}
                                             THEN {e + 1, e + 2} ELSE {e + 1}} :
                                 At(s, x) \in Units}}
        \* \d+ x?
        B == UNION {IF At(s, a) = "x" THEN {a, a + 1} ELSE {a} : a \in DigitRunEnds(s, p)}
        \* \d*
        C == UNION {{b} \cup DigitRunEnds(s, b) : b \in B}
        \* (?:\.\d+)?
        D == UNION {IF At(s, c) = "." THEN {c} \cup DigitRunEnds(s, c + 1) ELSE {c} : c \in C}
        \* [bBmMkK]
        E == {d + 1 : d \in {x \in D : At(s, x) \in Units}}
    IN {f \in UNION {{e} \cup Suffix(e) : e \in E} : WordBoundary(s, f)}

\* \d+\.\d+(?:\.\d+)?\b from position p: where it may end.
VersionEnds(s, p) ==
    LET \* \d+\.\d+
        B == UNION {IF At(s, a) = "." THEN DigitRunEnds(s, a + 1) ELSE {} :
                      a \in DigitRunEnds(s, p)}
        \* (?:\.\d+)?
        C == UNION {IF At(s, b) = "." THEN {b} \cup DigitRunEnds(s, b + 1) ELSE {b} :
                      b \in B}
    IN {e \in C : WordBoundary(s, e)}

\* The text re.search finds from position p on for the size or the version
\* pattern, <<>> when there is none: leftmost, the optional parts greedy.
RECURSIVE SearchGreedy(_, _, _)
SearchGreedy(s, p, pattern) ==
    IF p > Len(s) THEN <<>>
    ELSE LET ends == IF ~WordBoundary(s, p) THEN {}
                     ELSE IF pattern = "size" THEN SizeEnds(s, p)
                     ELSE VersionEnds(s, p)
         IN IF ends = {} THEN SearchGreedy(s, p + 1, pattern)
            ELSE Slice(s, p, Greatest(ends))

\* Lines 136-140: [size_val, name]; size_val is <<>> for None.
SizeStep(name) ==
    LET Found(g) == IF g = <<>> THEN [size_val |-> <<>>, name |-> name]
                    ELSE [size_val |-> lower(g), name |-> replace(name, g, <<" ">>)]
    IN Found(SearchGreedy(name, 1, "size"))

\* Lines 143-146: [version_val, name]; version_val is <<>> for None.
VersionStep(name) ==
    LET Found(g) == IF g = <<>> THEN [version_val |-> <<>>, name |-> name]
                    ELSE [version_val |-> g, name |-> replace(name, g, <<" ">>)]
    IN Found(SearchGreedy(name, 1, "version"))

\* PROVIDER_PATTERNS, lines 54-79: each pattern as the list of its
\* alternatives, an alternative as the list of its elements; "[1-9]" is the
\* character class.
PROVIDER_PATTERNS ==
    << [alts |-> << <<"c", "l", "a", "u", "d", "e">>, <<"a", "n", "t", "h", "r", "o", "p", "i", "c">> >>,
        provider |-> <<"a", "n", "t", "h", "r", "o", "p", "i", "c">>],
       [alts |-> << <<"g", "p", "t">>, <<"o", "p", "e", "n", "a", "i">>, <<"o", "[1-9]">> >>,
        provider |-> <<"o", "p", "e", "n", "a", "i">>],
       [alts |-> << <<"g", "e", "m", "i", "n", "i">>, <<"g", "o", "o", "g", "l", "e">>, <<"g", "e", "m", "m", "a">>, <<"p", "a", "l", "m">> >>,
        provider |-> <<"g", "o", "o", "g", "l", "e">>],
       [alts |-> << <<"l", "l", "a", "m", "a">>, <<"m", "e", "t", "a">> >>,
        provider |-> <<"m", "e", "t", "a">>],
       [alts |-> << <<"m", "i", "s", "t", "r", "a", "l">>, <<"m", "i", "x", "t", "r", "a", "l">>, <<"p", "i", "x", "t", "r", "a", "l">> >>,
        provider |-> <<"m", "i", "s", "t", "r", "a", "l">>],
       [alts |-> << <<"q", "w", "e", "n">>, <<"q", "w", "q">>, <<"a", "l", "i", "b", "a", "b", "a">> >>,
        provider |-> <<"a", "l", "i", "b", "a", "b", "a">>],
       [alts |-> << <<"d", "e", "e", "p", "s", "e", "e", "k">> >>,
        provider |-> <<"d", "e", "e", "p", "s", "e", "e", "k">>],
       [alts |-> << <<"g", "r", "o", "k">>, <<"x", "a", "i">> >>,
        provider |-> <<"x", "a", "i">>],
       [alts |-> << <<"p", "h", "i">>, <<"m", "i", "c", "r", "o", "s", "o", "f", "t">> >>,
        provider |-> <<"m", "i", "c", "r", "o", "s", "o", "f", "t">>],
       [alts |-> << <<"c", "o", "m", "m", "a", "n", "d">>, <<"c", "o", "h", "e", "r", "e">> >>,
        provider |-> <<"c", "o", "h", "e", "r", "e">>],
       [alts |-> << <<"k", "i", "m", "i">>, <<"m", "o", "o", "n", "s", "h", "o", "t">> >>,
        provider |-> <<"m", "o", "o", "n", "s", "h", "o", "t">>],
       [alts |-> << <<"m", "i", "n", "i", "m", "a", "x">> >>,
        provider |-> <<"m", "i", "n", "i", "m", "a", "x">>],
       [alts |-> << <<"g", "l", "m">>, <<"c", "h", "a", "t", "g", "l", "m">>, <<"z", "h", "i", "p", "u">>, <<"t", "h", "u", "d", "m">> >>,
        provider |-> <<"z", "h", "i", "p", "u">>],
       [alts |-> << <<"y", "i">>, <<"0", "1", ".", "a", "i">> >>,
        provider |-> <<"0", "1", "-", "a", "i">>],
       [alts |-> << <<"b", "a", "i", "c", "h", "u", "a", "n">> >>,
        provider |-> <<"b", "a", "i", "c", "h", "u", "a", "n">>],
       [alts |-> << <<"a", "r", "c", "t", "i", "c">>, <<"s", "n", "o", "w", "f", "l", "a", "k", "e">> >>,
        provider |-> <<"s", "n", "o", "w", "f", "l", "a", "k", "e">>],
       [alts |-> << <<"d", "b", "r", "x">>, <<"d", "a", "t", "a", "b", "r", "i", "c", "k", "s">> >>,
        provider |-> <<"d", "a", "t", "a", "b", "r", "i", "c", "k", "s">>],
       [alts |-> << <<"s", "o", "l", "a", "r">>, <<"u", "p", "s", "t", "a", "g", "e">> >>,
        provider |-> <<"u", "p", "s", "t", "a", "g", "e">>],
       [alts |-> << <<"g", "r", "a", "n", "i", "t", "e">>, <<"i", "b", "m">> >>,
        provider |-> <<"i", "b", "m">>],
       [alts |-> << <<"s", "a", "m", "b", "a">>, <<"s", "a", "m", "b", "a", "n", "o", "v", "a">> >>,
        provider |-> <<"s", "a", "m", "b", "a", "n", "o", "v", "a">>],
       [alts |-> << <<"c", "e", "r", "e", "b", "r", "a", "s">> >>,
        provider |-> <<"c", "e", "r", "e", "b", "r", "a", "s">>],
       [alts |-> << <<"j", "a", "m", "b", "a">>, <<"a", "i", "2", "1">> >>,
        provider |-> <<"a", "i", "2", "1">>],
       [alts |-> << <<"s", "t", "a", "r", "c", "o", "d", "e", "r">>, <<"b", "i", "g", "c", "o", "d", "e">> >>,
        provider |-> <<"b", "i", "g", "c", "o", "d", "e">>],
       [alts |-> << <<"f", "a", "l", "c", "o", "n">>, <<"t", "i", "i">> >>,
        provider |-> <<"t", "i", "i">>] >>

\* An alternative of a pattern at position p, with re.IGNORECASE.
AlternativeAt(s, p, alt) ==
    \A i \in 1..Len(alt) :
        IF alt[i] = "[1-9]" THEN At(s, p + i - 1) \in DigitChars \ {"0"}
        ELSE ToLower(At(s, p + i - 1)) = alt[i]

\* re.search(pat, s, re.IGNORECASE)
PatternFound(s, alts) ==
    \E p \in 1..Len(s) : \E i \in 1..Len(alts) : AlternativeAt(s, p, alts[i])

\* re.sub(pat, "", s, flags=re.IGNORECASE) from position p on: at a position
\* the first alternative that matches is the one taken.
RECURSIVE SubPatternFrom(_, _, _)
SubPatternFrom(s, p, alts) ==
    IF p > Len(s) THEN <<>>
    ELSE IF \E i \in 1..Len(alts) : AlternativeAt(s, p, alts[i])
         THEN LET i == Least({j \in 1..Len(alts) : AlternativeAt(s, p, alts[j])})
              IN SubPatternFrom(s, p + Len(alts[i]), alts)
    ELSE <<s[p]>> \o SubPatternFrom(s, p + 1, alts)

Unknown == <<"u", "n", "k", "n", "o", "w", "n">>

\* re.match(r"([a-zA-Z0-9]+)", s): the leading run of letters and digits.
RECURSIVE FirstWord(_)
FirstWord(s) ==
    IF s # <<>> /\ Head(s) \in LowerChars \cup UpperChars \cup DigitChars
    THEN <<Head(s)>> \o FirstWord(Tail(s))
    ELSE <<>>

\* Lines 156-158.
FallbackProvider(raw_name) ==
    IF FirstWord(strip(raw_name)) # <<>> THEN lower(FirstWord(strip(raw_name)))
    ELSE Unknown

\* The entries of the table whose pattern is found in the raw name.
MatchingEntries(raw_name) ==
    {k \in 1..Len(PROVIDER_PATTERNS) : PatternFound(raw_name, PROVIDER_PATTERNS[k].alts)}

\* Lines 149-158 with the last matching entry taken instead of the first.
ProviderStepLast(raw_name, name) ==
    IF MatchingEntries(raw_name) = {}
    THEN [provider_val |-> FallbackProvider(raw_name), name |-> name]
    ELSE LET k == Greatest(MatchingEntries(raw_name))
         IN [provider_val |-> PROVIDER_PATTERNS[k].provider,
             name |-> SubPatternFrom(name, 1, PROVIDER_PATTERNS[k].alts)]

\* Lines 149-158: [provider_val, name].
ProviderStep(raw_name, name) ==
    IF MatchingEntries(raw_name) = {}
    THEN [provider_val |-> FallbackProvider(raw_name), name |-> name]
    ELSE LET k == Least(MatchingEntries(raw_name))
         IN [provider_val |-> PROVIDER_PATTERNS[k].provider,
             name |-> SubPatternFrom(name, 1, PROVIDER_PATTERNS[k].alts)]

\* re.sub(r"\(.*?\)|[^a-z0-9]+", "-", t) from position p on.
RECURSIVE SubNonAlnumFrom(_, _)
SubNonAlnumFrom(t, p) ==
    IF p > Len(t) THEN <<>>
    ELSE IF t[p] = "(" /\ \E q \in (p + 1)..Len(t) : t[q] = ")"
         THEN <<"-">> \o SubNonAlnumFrom(t, Least({q \in (p + 1)..Len(t) : t[q] = ")"}) + 1)
    ELSE IF t[p] \notin LowerChars \cup DigitChars
         THEN <<"-">> \o SubNonAlnumFrom(t,
                  Least({q \in (p + 1)..(Len(t) + 1) :
                            At(t, q) \in LowerChars \cup DigitChars \cup {""}}))
    ELSE <<t[p]>> \o SubNonAlnumFrom(t, p + 1)

\* str.strip("-")
RECURSIVE StripDashes(_)
StripDashes(s) ==
    IF s # <<>> /\ Head(s) = "-" THEN StripDashes(Tail(s))
    ELSE IF s # <<>> /\ s[Len(s)] = "-" THEN StripDashes(SubSeq(s, 1, Len(s) - 1))
    ELSE s

\* "-".join([str(p) for p in parts if p])
RECURSIVE JoinParts(_)
JoinParts(parts) ==
    IF parts = <<>> THEN <<>>
    ELSE IF Head(parts) = <<>> THEN JoinParts(Tail(parts))
    ELSE IF JoinParts(Tail(parts)) = <<>> THEN Head(parts)
    ELSE Head(parts) \o <<"-">> \o JoinParts(Tail(parts))

\* re.sub(r"-+", "-", s)
RECURSIVE CollapseDashes(_)
CollapseDashes(s) ==
    IF Len(s) < 2 THEN s
    ELSE IF s[1] = "-" /\ s[2] = "-" THEN CollapseDashes(Tail(s))
    ELSE <<s[1]>> \o CollapseDashes(Tail(s))

\* re.sub(r"-standard$", "", s)
DropStandard(s) ==
    LET suffix == <<"-">> \o Standard
    IN IF Len(s) >= Len(suffix) /\ StartsAt(s, Len(s) - Len(suffix) + 1, suffix)
       THEN SubSeq(s, 1, Len(s) - Len(suffix))
       ELSE s

\* Lines 160-168, with the local variables as they are at the return.
IdConstruction(dated, varied, sized, versioned, provided) ==
    LET clean_family == StripDashes(SubNonAlnumFrom(lower(provided.name), 1))
        base_id == CollapseDashes(lower(JoinParts(
                       <<provided.provider_val, clean_family,
                         versioned.version_val, sized.size_val>>)))
        full_id == DropStandard(CollapseDashes(lower(JoinParts(
                       <<base_id, varied.variant_val, dated.date_val>>))))
    IN [full_id |-> full_id, base_id |-> base_id,
        provider_val |-> provided.provider_val,
        variant_val |-> varied.variant_val, date_val |-> dated.date_val,
        size_val |-> sized.size_val, version_val |-> versioned.version_val,
        varied_name |-> varied.name, name |-> provided.name]

\* normalize_model past its first test, lines 106-170: the steps one after
\* the other, each on the name the step before it left.
NormalizeSteps(raw_name) ==
    LET Provider(dated, varied, sized, versioned) ==
            IdConstruction(dated, varied, sized, versioned,
                           ProviderStep(raw_name, versioned.name))
        Version(dated, varied, sized) ==
            Provider(dated, varied, sized, VersionStep(sized.name))
        Size(dated, varied) == Version(dated, varied, SizeStep(varied.name))
        Variant(dated) == Size(dated, VariantStep(raw_name, dated.name))
    IN Variant(DateStep(CamelPasses(strip(raw_name))))

NotAvailable == <<"n", "/", "a">>

\* normalize_model(raw_name): (full_id, base_id, provider_val).
normalize_model(raw_name) ==
    IF raw_name = <<>>
    THEN [full_id |-> NotAvailable, base_id |-> NotAvailable, provider_val |-> Unknown]
    ELSE [f \in {"full_id", "base_id", "provider_val"} |-> NormalizeSteps(raw_name)[f]]

----------------------------------------------------------------------------
(* read_source.py: the benchmark sheet *)

\* Bound: the number of rows of the benchmark sheet.
MaxSheet == 3

SheetNames == { <<"a">>, <<"b">> }
SheetVariants == { None, Some(<<"v">>) }
SheetRows == [name_normalized : SheetNames, variant : SheetVariants]

\* The sort key of benchmark_dictionary_from_googlesheet:
\* (x["name_normalized"], x["variant"] or "").
RowKeyLess(r, s) ==
    \/ StrLess(r.name_normalized, s.name_normalized)
    \/ /\ r.name_normalized = s.name_normalized
       /\ StrLess(OrEmpty(r.variant), OrEmpty(s.variant))

RECURSIVE SortRows(_)
SortRows(S) ==
    IF S = {} THEN <<>>
    ELSE LET m == CHOOSE r \in S : \A s \in S \ {r} : RowKeyLess(r, s)
         IN <<m>> \o SortRows(S \ {m})

\* The rows sorted, each given its position as id.
benchmark_dictionary_from_googlesheet(rows) ==
    LET sorted == SortRows(rows)
    IN [i \in 1..Len(sorted) |->
           [id |-> i - 1,
            name_normalized |-> sorted[i].name_normalized,
            variant |-> sorted[i].variant]]

----------------------------------------------------------------------------
(* Table benchmark_dictionary (models.py) and ingest_benchmark_dictionary *)

\* Primary key id, and UNIQUE(name_normalized, variant): in SQL a NULL variant
\* never equals another, so rows with a NULL variant never conflict.
BenchInsertConflict(table, row) ==
    \E r \in table :
        \/ r.id = row.id
        \/ /\ r.name_normalized = row.name_normalized
           /\ r.variant = row.variant
           /\ row.variant # None

\* session.query(BenchmarkDictionary).filter_by(name_normalized=.., variant=..).first()
\* (filter_by(variant=None) is rendered as IS NULL).
BenchExists(table, row) ==
    \E r \in table :
        r.name_normalized = row.name_normalized /\ r.variant = row.variant

\* Lines 30-35: the records with their names normalized in place.
NormalizeBenchRecords(records) ==
    LET norm == normalize_benchmark_names(
                    [i \in 1..Len(records) |-> records[i].name_normalized],
                    [i \in 1..Len(records) |-> records[i].variant])
    IN [i \in 1..Len(records) |->
           [records[i] EXCEPT !.name_normalized = norm[i][1],
                              !.variant = norm[i][2]]]

\* The update loop from record i on: the rows are inserted in one transaction;
\* an IntegrityError leaves the loop, nothing is committed.
RECURSIVE DictUpdateLoop(_, _, _, _)

\* The update loop counting every record, not only the inserted ones.
DictUpdateLoopCountAll(table, records, i, n) ==
    IF i > Len(records) THEN [ok |-> TRUE, table |-> table, n_updated |-> Len(records)]
    ELSE IF BenchExists(table, records[i])
         THEN DictUpdateLoop(table, records, i + 1, n)
    ELSE IF BenchInsertConflict(table, records[i])
         THEN [ok |-> FALSE, table |-> table, n_updated |-> n]
    ELSE DictUpdateLoop(table \cup {records[i]}, records, i + 1, n + 1)

DictUpdateLoop(table, records, i, n) ==
    IF i > Len(records) THEN [ok |-> TRUE, table |-> table, n_updated |-> n]
    ELSE IF BenchExists(table, records[i])
         THEN DictUpdateLoop(table, records, i + 1, n)
    ELSE IF BenchInsertConflict(table, records[i])
         THEN [ok |-> FALSE, table |-> table, n_updated |-> n]
    ELSE DictUpdateLoop(table \cup {records[i]}, records, i + 1, n + 1)

\* The rows of the table in rowid order.
RECURSIVE RowsById(_)
RowsById(table) ==
    IF table = {} THEN <<>>
    ELSE LET m == CHOOSE r \in table : \A s \in table : r.id <= s.id
         IN <<m>> \o RowsById(table \ {m})

IdsOf(records) == [i \in 1..Len(records) |-> records[i].id]

\* update=True (lines 39-53): [ok, table, n_updated, all_records].
DictUpdate(table, records) ==
    LET res == DictUpdateLoop(table, records, 1, 0)
    IN IF res.ok
       THEN [ok |-> TRUE, table |-> res.table, n_updated |-> res.n_updated,
             all_records |-> RowsById(res.table)]
       ELSE [ok |-> FALSE, table |-> table, n_updated |-> 0, all_records |-> <<>>]

\* The multi-row INSERT of the bulk branch into the emptied table.
RECURSIVE BulkInsert(_, _, _)
BulkInsert(table, records, i) ==
    IF i > Len(records) THEN [ok |-> TRUE, table |-> table]
    ELSE IF BenchInsertConflict(table, records[i]) THEN [ok |-> FALSE, table |-> table]
    ELSE BulkInsert(table \cup {records[i]}, records, i + 1)

\* update=False (lines 54-60): delete, insert, commit; all_records = records.
DictBulk(table, records) ==
    LET res == BulkInsert({}, records, 1)
    IN IF res.ok
       THEN [ok |-> TRUE, table |-> res.table, n_updated |-> Len(records),
             all_records |-> records]
       ELSE [ok |-> FALSE, table |-> table, n_updated |-> 0, all_records |-> <<>>]

\* The database part of ingest_benchmark_dictionary (lines 29-60).
DictWrite(table, records, update) ==
    IF update THEN DictUpdate(table, NormalizeBenchRecords(records))
    ELSE DictBulk(table, NormalizeBenchRecords(records))

----------------------------------------------------------------------------
(* Embedding (embedding.py) *)

EMBED_DIM == 4096

\* What the provider may answer to an embeddings request: an HTTP error
\* (raise_for_status), or vectors of some width.
ProviderWidths == {EMBED_DIM, 1024}
ProviderResponses ==
    {[http_ok |-> FALSE, width |-> 0]} \cup
    {[http_ok |-> TRUE, width |-> w] : w \in ProviderWidths}

NoIndex == [kind |-> "none", ids |-> <<>>, dim |-> 0]

\* _openrouter_embed without the width check of lines 48-52.
openrouter_embed_unchecked(resp) ==
    IF ~resp.http_ok THEN [ok |-> FALSE, error |-> "HTTPStatusError", dim |-> 0]
    ELSE [ok |-> TRUE, error |-> "", dim |-> resp.width]

\* _openrouter_embed: raises on an HTTP error and on a width other than EMBED_DIM.
openrouter_embed(resp) ==
    IF ~resp.http_ok THEN [ok |-> FALSE, error |-> "HTTPStatusError", dim |-> 0]
    ELSE IF resp.width # EMBED_DIM THEN [ok |-> FALSE, error |-> "ValueError", dim |-> 0]
    ELSE [ok |-> TRUE, error |-> "", dim |-> resp.width]

\* _build_faiss_index: an IndexIDMap2 over the vectors, holding doc_ids.
build_faiss_index(dim, doc_ids) == [kind |-> "index", ids |-> doc_ids, dim |-> dim]

\* generate_index, lines 87-91: the provider is asked; on success self.index is
\* replaced, and the write to disk follows.
GenerateEmbed ==
    /\ genPc = "embed"
    /\ \E resp \in ProviderResponses :
          LET e == openrouter_embed(resp)
          IN /\ respWidth' = resp.width
             /\ IF e.ok
                THEN /\ index' = build_faiss_index(e.dim, genIds)
                     /\ genPc' = "write"
                     /\ UNCHANGED genOutcome
                ELSE /\ genPc' = "idle"
                     /\ genOutcome' = e.error
                     /\ UNCHANGED index
    /\ UNCHANGED <<disk, genIds, built>>

\* _write_index: faiss.write_index opens the file at the final path for writing
\* (which truncates it) ...
WriteOpen ==
    /\ genPc = "write"
    /\ disk' = [kind |-> "partial", ids |-> <<>>, dim |-> index.dim]
    /\ genPc' = "writing"
    /\ UNCHANGED <<index, genIds, genOutcome, respWidth, built>>

\* ... and writes the index into it; generate_index returns.
WriteFinish ==
    /\ genPc = "writing"
    /\ disk' = index
    /\ genPc' = "idle"
    /\ genOutcome' = "ok"
    /\ built' = TRUE
    /\ UNCHANGED <<index, genIds, respWidth>>

\* The write fails (the file cannot be opened, or an I/O error while writing):
\* faiss raises, generate_index propagates the error.
WriteFail ==
    /\ genPc \in {"write", "writing"}
    /\ genPc' = "idle"
    /\ genOutcome' = "RuntimeError"
    /\ UNCHANGED <<index, disk, genIds, respWidth, built>>

GenerateStep == GenerateEmbed \/ WriteOpen \/ WriteFinish \/ WriteFail

----------------------------------------------------------------------------
(* Table llm_metadata (models.py) and ingest_llm_metadata *)

\* SQLite gives a row inserted without id the largest rowid plus one.
NextId(table) ==
    IF table = {} THEN 1
    ELSE (CHOOSE r \in table : \A t \in table : t.id <= r.id).id + 1

\* UNIQUE(name_normalized, provider, quantization); a NULL quantization never
\* conflicts.
LLMInsertConflict(table, row) ==
    \E r \in table :
        /\ r.name_normalized = row.name_normalized
        /\ r.provider = row.provider
        /\ r.quantization = row.quantization
        /\ row.quantization # None

\* session.query(LLMMetadata).filter_by(name_normalized=..).first()
LLMExists(table, row) == \E r \in table : r.name_normalized = row.name_normalized

\* Lines 81-84.
NormalizeLLMRecords(records) ==
    LET norm == normalize_model_names(
                    [i \in 1..Len(records) |-> records[i].name_normalized])
    IN [i \in 1..Len(records) |-> [records[i] EXCEPT !.name_normalized = norm[i]]]

WithId(row, id) ==
    [id |-> id, name_normalized |-> row.name_normalized,
     provider |-> row.provider, quantization |-> row.quantization]

\* Lines 88-98 (skip_existing) and 100-102 (~skip_existing), from record i on.
RECURSIVE LLMInsertLoop(_, _, _, _)
LLMInsertLoop(table, records, i, skip_existing) ==
    IF i > Len(records) THEN [ok |-> TRUE, table |-> table]
    ELSE IF skip_existing /\ LLMExists(table, records[i])
         THEN LLMInsertLoop(table, records, i + 1, skip_existing)
    ELSE IF LLMInsertConflict(table, records[i]) THEN [ok |-> FALSE, table |-> table]
    ELSE LLMInsertLoop(table \cup {WithId(records[i], NextId(table))},
                       records, i + 1, skip_existing)

\* The table after ingest_llm_metadata(records, update); an IntegrityError
\* rolls the transaction back.
LLMWrite(table, records, update) ==
    LET res == LLMInsertLoop(IF update THEN table ELSE {},
                             NormalizeLLMRecords(records), 1, update)
    IN IF res.ok THEN res.table ELSE table

----------------------------------------------------------------------------
(* Table benchmark_scores (models.py) and ingest_benchmark_scores *)

Concat3(a, b, c) == a \o b \o c

\* The keys of the lookup tables, lines 132 and 136.
BenchKey(name, variant) == Concat3(name, <<"#">>, OrEmpty(variant))
LLMKey(name) == name

\* fk_lookup_benchmark[key], lines 131-134 and 150: the dict comprehension
\* runs over the rows in rowid order, a later row replacing an earlier one
\* of the same key; .get gives None for a missing key.
fk_lookup_benchmark(table, key) ==
    LET hits == {r \in table : BenchKey(r.name_normalized, r.variant) = key}
    IN IF hits = {} THEN None
       ELSE Some(CHOOSE r \in hits : \A t \in hits : t.id <= r.id)

\* fk_lookup_llm[key], lines 135-137 and 158.
fk_lookup_llm(table, key) ==
    LET hits == {r \in table : LLMKey(r.name_normalized) = key}
    IN IF hits = {} THEN None
       ELSE Some(CHOOSE r \in hits : \A t \in hits : t.id <= r.id)

NoId == -1

\* A record as the caller passes it: no benchmark_id and no model_id key yet.
Unresolved(rec) == [rec EXCEPT !.benchmark_id = NoId, !.model_id = NoId]

\* The loop of lines 139-161 with the normalized names written back into the
\* records' original_model_name and original_benchmark_name.
RECURSIVE ResolveLoopRenaming(_, _, _, _, _)
ResolveLoopRenaming(records, i, benches, llms, skip_fk) ==
    IF i > Len(records) THEN [ok |-> TRUE, records |-> records]
    ELSE LET bnorm == normalize_benchmark_names(
                          <<records[i].original_benchmark_name>>,
                          <<records[i].original_benchmark_variant>>)[1]
             mnorm == normalize_model_names(<<records[i].original_model_name>>)[1]
             renamed == [records EXCEPT ![i].original_model_name = mnorm,
                                        ![i].original_benchmark_name = bnorm[1]]
             benchmark_fk == fk_lookup_benchmark(benches, BenchKey(bnorm[1], bnorm[2]))
             model_fk == fk_lookup_llm(llms, LLMKey(mnorm))
         IN IF skip_fk
            THEN ResolveLoopRenaming(
                     [renamed EXCEPT ![i].benchmark_id = 0, ![i].model_id = 0],
                     i + 1, benches, llms, skip_fk)
            ELSE IF benchmark_fk = None THEN [ok |-> FALSE, records |-> renamed]
            ELSE IF model_fk = None
                 THEN [ok |-> FALSE,
                       records |-> [renamed EXCEPT ![i].benchmark_id = benchmark_fk[1].id]]
            ELSE ResolveLoopRenaming(
                     [renamed EXCEPT ![i].benchmark_id = benchmark_fk[1].id,
                                     ![i].model_id = model_fk[1].id],
                     i + 1, benches, llms, skip_fk)

\* The loop of lines 139-161 from record i on: [ok, records].  The ids are
\* written into the caller's records; the first record that does not resolve
\* raises ValueError and ends the call.
RECURSIVE ResolveLoop(_, _, _, _, _)
ResolveLoop(records, i, benches, llms, skip_fk) ==
    IF i > Len(records) THEN [ok |-> TRUE, records |-> records]
    ELSE IF skip_fk
         THEN ResolveLoop([records EXCEPT ![i].benchmark_id = 0, ![i].model_id = 0],
                          i + 1, benches, llms, skip_fk)
    ELSE LET bnorm == normalize_benchmark_names(
                          <<records[i].original_benchmark_name>>,
                          <<records[i].original_benchmark_variant>>)[1]
             mnorm == normalize_model_names(<<records[i].original_model_name>>)[1]
             benchmark_fk == fk_lookup_benchmark(benches, BenchKey(bnorm[1], bnorm[2]))
             model_fk == fk_lookup_llm(llms, LLMKey(mnorm))
         IN IF benchmark_fk = None THEN [ok |-> FALSE, records |-> records]
            ELSE IF model_fk = None
                 THEN [ok |-> FALSE,
                       records |-> [records EXCEPT ![i].benchmark_id = benchmark_fk[1].id]]
            ELSE ResolveLoop([records EXCEPT ![i].benchmark_id = benchmark_fk[1].id,
                                             ![i].model_id = model_fk[1].id],
                             i + 1, benches, llms, skip_fk)

\* session.query(BenchmarkScore).filter_by(benchmark_id=.., model_id=..,
\* source_url=.., date_published=..).first(), lines 166-175.
ScoreExists(table, row) ==
    \E r \in BagToSet(table) :
        /\ r.benchmark_id = row.benchmark_id
        /\ r.model_id = row.model_id
        /\ r.source_url = row.source_url
        /\ r.date_published = row.date_published

\* Lines 165-181 (skip_existing) and 185 (~skip_existing), from record i on.
\* benchmark_scores has no unique constraint, and SQLite does not enforce the
\* foreign keys: no insert is refused.
RECURSIVE ScoreInsertLoop(_, _, _, _)
ScoreInsertLoop(table, records, i, skip_existing) ==
    IF i > Len(records) THEN table
    ELSE IF skip_existing /\ ScoreExists(table, records[i])
         THEN ScoreInsertLoop(table, records, i + 1, skip_existing)
    ELSE ScoreInsertLoop(table (+) SetToBag({records[i]}), records, i + 1, skip_existing)

\* Lines 163-186.
ScoreWrite(table, records, update) ==
    ScoreInsertLoop(IF update THEN table ELSE EmptyBag, records, 1, update)

\* ingest_benchmark_scores: [ok, records, table].
ingest_benchmark_scores(records, benches, llms, table, update, skip_fk) ==
    LET res == ResolveLoop(records, 1, benches, llms, skip_fk)
    IN [ok |-> res.ok,
        records |-> res.records,
        table |-> IF res.ok THEN ScoreWrite(table, res.records, update) ELSE table]

----------------------------------------------------------------------------
(* The build script: read the sheet, ingest the dictionary *)

\* The sheet is edited by its maintainers: a row is added or removed.
SheetEdit ==
    /\ genPc = "idle"
    /\ \E r \in SheetRows :
          \/ /\ r \notin sheet
             /\ Cardinality(sheet) < MaxSheet
             /\ sheet' = sheet \cup {r}
          \/ /\ r \in sheet
             /\ sheet' = sheet \ {r}
    /\ UNCHANGED <<benchTable, dictCall, embVars, readVars, outsideIndex>>

\* What a call of ingest_benchmark_dictionary leaves in dictCall: its mode, the
\* records as it left them, whether it returned, whether it is an update call
\* on the records of the update call before it, and whether it changed the
\* table.
DictCallRecord(update, records, res) ==
    [called |-> TRUE, update |-> update, ok |-> res.ok, records |-> records,
     repeated |-> dictCall.called /\ dictCall.update /\ update /\ dictCall.records = records,
     table_changed |-> res.table # benchTable]

\* records = benchmark_dictionary_from_googlesheet();
\* ingest_benchmark_dictionary(records=records, ..., update=update), up to the
\* call of generate_index (lines 29-65).  The bulk INSERT of an empty list is
\* left out.
IngestBenchmarkDictionary(update) ==
    /\ genPc = "idle"
    /\ sheet # {}
    /\ LET records == benchmark_dictionary_from_googlesheet(sheet)
           res == DictWrite(benchTable, records, update)
       IN /\ benchTable' = res.table
          /\ dictCall' = DictCallRecord(update, NormalizeBenchRecords(records), res)
          /\ IF res.ok /\ res.n_updated > 0
             THEN /\ genPc' = "embed"
                  /\ genIds' = IdsOf(res.all_records)
             ELSE UNCHANGED <<genPc, genIds>>
    /\ UNCHANGED <<sheet, index, disk, genOutcome, respWidth, built, readVars, outsideIndex>>

----------------------------------------------------------------------------
(* agentic_core/tools.py: retrieve_and_rank_models *)

\* The body of retrieve_and_rank_models is `pass`: whatever its arguments,
\* the call returns Python's None and reads nothing from the session.
retrieve_and_rank_models(benchmark_ids, constraints, io_ratio, session) == None

\* The database a ranking request runs against: three models, a target
\* benchmark and a bridge benchmark, and a score for some of the six
\* (model, benchmark) cells.
MaxRankScore == 2
ModelA == "A"
ModelB == "B"
ModelC == "C"
BenchX == "X"
BenchY == "Y"
RankModels == {ModelA, ModelB, ModelC}
RankBenchmarks == {BenchX, BenchY}
RankCells == RankModels \X RankBenchmarks

\* Which of the three models have open weights.
OpenWeights == [m \in RankModels |-> m # ModelB]

\* A score matrix: every cell is absent (0) or holds a score in 1..MaxRankScore.
RankSessions == [RankCells -> 0..MaxRankScore]

\* The constraints of a request: is_open_weights required or not.
RankConstraints == { [is_open_weights |-> b] : b \in BOOLEAN }

IoRatio == [input |-> 8, output |-> 2]

NoRankCall ==
    [called |-> FALSE, benchmark_ids |-> <<>>,
     constraints |-> [is_open_weights |-> FALSE],
     session |-> [c \in RankCells |-> 0], result |-> None]

\* One ranking request: the caller asks for the target benchmark and keeps
\* what the function returns.
RetrieveAndRank ==
    /\ \E session \in RankSessions, constraints \in RankConstraints :
          rankCall' =
              [called |-> TRUE, benchmark_ids |-> <<BenchX>>,
               constraints |-> constraints, session |-> session,
               result |-> retrieve_and_rank_models(<<BenchX>>, constraints,
                                                   IoRatio, session)]
    /\ UNCHANGED outsideRank

NoDictCall ==
    [called |-> FALSE, update |-> TRUE, ok |-> TRUE, records |-> <<>>,
     repeated |-> FALSE, table_changed |-> FALSE]

NoScoreCall ==
    [called |-> FALSE, update |-> TRUE, skip_fk |-> FALSE, ok |-> TRUE,
     input |-> <<>>, records |-> <<>>]

NoSearch ==
    [called |-> FALSE, inst |-> "emb", never_built |-> TRUE, k |-> 0,
     status |-> "none", requested |-> FALSE, ids |-> <<>>, scores |-> <<>>]

----------------------------------------------------------------------------
(* Calls of normalize_model *)

\* The raw labels the calls are made with: a model family, then a variant
\* keyword, then a date or a version suffix, each of them possibly absent.
NormFamilies ==
    { <<"g", "p", "t", "-", "4">>,
      <<"o", "1">>,
      <<"D", "e", "e", "p", "S", "e", "e", "k", " ", "R", "1">>,
      <<"s", "o", "l", "o", "1">>,
      <<"p", "h", "i", "-", "l", "l", "a", "m", "a">>,
      <<"z", "e", "p", "h", "y", "r", " ", "7", "B">>,
      <<>>,
      <<" ", " ">>,
      <<"L", "l", "a", "m", "a", "3", ".", "1", "-", "7", "0", "B">>,
      <<"(", "n", "e", "w", ")", " ", "z", "e", "p", "h", "y", "r">> }
NormKeywords ==
    { <<>>,
      <<"-", "p", "r", "e", "v", "i", "e", "w">>,
      <<"-", "i", "n", "s", "t", "r", "u", "c", "t">>,
      <<"-", "t", "h", "i", "n", "k", "i", "n", "g">>,
      <<"-", "p", "r", "e", "v", "i", "e", "w", "-", "i", "n", "s", "t", "r", "u", "c", "t">> }
NormDates ==
    { <<>>,
      <<" ", "(", "2", "0", "2", "4", "0", "9", "1", "2", ")">>,
      <<" ", "(", "2", "0", "2", "4", "-", "0", "9", "-", "1", "2", ")">>,
      <<"-", "2", "0", "2", "4", "-", "0", "9", "-", "1", "2">>,
      <<" ", "(", "9", "/", "2", "4", ")">>,
      <<" ", "(", "1", "1", "/", "2", "0", "2", "4", ")">>,
      <<" ", "2", "0", "2", "4", "-", "0", "9", "-", "1", "2", " ", "(", "2", "0", "2", "5", "0", "1", "0", "1", ")">>,
      <<"-", "0", "6", "1", "3">> }

\* A call about to be made with the label family + keyword + date.
NormArgument(family, keyword, date) ==
    [called |-> FALSE, family |-> family, keyword |-> keyword, date |-> date,
     raw_name |-> family \o keyword \o date, returned |-> None, locals |-> None]

\* normalize_model(raw_name)
NormalizeModel ==
    /\ ~normCall.called
    /\ normCall' =
           [normCall EXCEPT
               !.called = TRUE,
               !.returned = Some(normalize_model(normCall.raw_name)),
               !.locals = IF normCall.raw_name = <<>> THEN None
                          ELSE Some(NormalizeSteps(normCall.raw_name))]
    /\ UNCHANGED <<dictVars, embVars, readVars, scoreVars, rankVars, apiVars, graphVars>>

----------------------------------------------------------------------------
(* The HTTP API: api/deps.py, api/main.py, api/routers/query.py *)

\* What _load_key_set may return for LLM_COMPASS_API_KEYS: the default when
\* the variable is unset or holds no key, else the keys it lists.
ApiKeySets == { {"dev-api-key"}, {"key-1", "key-2"} }

\* The X-API-Key header of a request: absent, or a string.
HeaderValues == { None, Some(""), Some("dev-api-key"), Some("key-1"), Some("bad-key") }

\* require_api_key with only the test that the header is there.
require_api_key_present(x_api_key, keys) ==
    ~(x_api_key = None \/ x_api_key[1] = "")

\* require_api_key: TRUE when it returns, FALSE when it raises
\* HTTPException(status_code=401, detail="Invalid API key").
require_api_key(x_api_key, keys) ==
    ~(x_api_key = None \/ x_api_key[1] = "" \/ x_api_key[1] \notin keys)

\* code_map of http_exception_handler, with its default.
code_map(status_code) ==
    CASE status_code = 400 -> "VALIDATION_ERROR"
      [] status_code = 401 -> "UNAUTHORIZED"
      [] status_code = 403 -> "FORBIDDEN"
      [] status_code = 404 -> "NOT_FOUND"
      [] status_code = 409 -> "CONFLICT"
      [] status_code = 422 -> "UNPROCESSABLE_ENTITY"
      [] status_code = 500 -> "INTERNAL_ERROR"
      [] status_code = 503 -> "SERVICE_UNAVAILABLE"
      [] OTHER -> "HTTP_ERROR"

\* The response to a request that did not end in a QueryResponse: the status
\* code and the code of the first error of the body.
ErrorResponse(status_code, code) ==
    [status_code |-> status_code, code |-> code, session_id |-> "", status |-> "",
     user_query |-> <<>>]

\* http_exception_handler on HTTPException(status_code, detail); detail_code is
\* the "code" of a dict detail, None for a string detail.
http_exception_handler(status_code, detail_code) ==
    IF detail_code # None THEN ErrorResponse(status_code, detail_code[1])
    ELSE ErrorResponse(status_code, code_map(status_code))

\* A state dict: the keys it holds and, for the keys the handlers read, their
\* values (the default of .get() for a key it does not hold).  user_query is
\* a string, kept as the sequence of the pieces it was put together from;
\* errors is the list of the error codes.
StateDict(keys, user_query, clarification_needed, errors) ==
    [keys |-> keys,
     user_query |-> IF "user_query" \in keys THEN user_query ELSE <<>>,
     clarification_needed |-> ("clarification_needed" \in keys) /\ clarification_needed,
     errors |-> IF "errors" \in keys THEN errors ELSE <<>>]

EmptyDict == StateDict({}, <<>>, FALSE, <<>>)

\* initial_state of create_query (of its keys, those the handlers read).
InitialState(user_query) ==
    StateDict({"user_query", "clarification_needed"}, user_query, FALSE, <<>>)

\* How build_graph() and graph.invoke(state) may end: build_graph raises (the
\* fallback of lines 11-13 does), invoke raises, or invoke returns something
\* that is not a dict, the state with "clarification_needed" put to False or
\* to True, the state with a list of errors, or an empty dict.
GraphOutcomes ==
    {"build_raises", "invoke_raises", "not_a_dict", "answered", "needs_clarification",
     "errors", "empty"}

GraphFails(outcome) == outcome \in {"build_raises", "invoke_raises"}

\* `result if isinstance(result, dict) else state`, for the outcomes that return.
ResultState(outcome, state) ==
    CASE outcome = "not_a_dict" -> state
      [] outcome = "answered" ->
            StateDict(state.keys \cup {"clarification_needed"},
                      state.user_query, FALSE, state.errors)
      [] outcome = "needs_clarification" ->
            StateDict(state.keys \cup {"clarification_needed"},
                      state.user_query, TRUE, state.errors)
      [] outcome = "errors" ->
            StateDict(state.keys \cup {"errors"},
                      state.user_query, state.clarification_needed, <<"ERROR">>)
      [] outcome = "empty" -> EmptyDict

\* _build_response: the QueryResponse, with status code 200.
build_response(session_id, state) ==
    [status_code |-> 200, code |-> "", session_id |-> session_id,
     status |-> IF state.errors # <<>> THEN "error"
                ELSE IF state.clarification_needed THEN "needs_clarification"
                ELSE "ok",
     user_query |-> state.user_query]

\* The session ids: those a client may send, and those uuid.uuid4() gives.
ClientSessionIds == {"s1"}
UuidSessionIds == {"u1"}
SessionIds == ClientSessionIds \cup UuidSessionIds

\* Bound: the number of pieces of a stored user_query.
MaxQueryPieces == 5

NoApiCall ==
    [called |-> FALSE, endpoint |-> "", x_api_key |-> None, session_id |-> "",
     stored_before |-> FALSE, outcome |-> "", invoked |-> FALSE,
     response |-> ErrorResponse(0, "")]

\* The servers start with an empty session store.
ServerIdle ==
    /\ sessions = [id \in SessionIds |-> None]
    /\ apiCall = NoApiCall

\* What a request leaves in apiCall.
ApiCall(endpoint, x_api_key, session_id, outcome, invoked, response) ==
    [called |-> TRUE, endpoint |-> endpoint, x_api_key |-> x_api_key,
     session_id |-> session_id, stored_before |-> sessions[session_id] # None,
     outcome |-> outcome, invoked |-> invoked, response |-> response]

\* POST /api/v1/query with a valid body; req_session_id is None or a client's id.
CreateQuery(x_api_key, req_session_id, outcome) ==
    /\ req_session_id = None => \E id \in UuidSessionIds : sessions[id] = None
    /\ LET session_id ==
               IF req_session_id # None THEN req_session_id[1]
               ELSE CHOOSE id \in UuidSessionIds : sessions[id] = None
           initial_state == InitialState(<<"query">>)
       IN IF ~require_api_key(x_api_key, apiKeys)
          THEN /\ apiCall' = ApiCall("query", x_api_key, session_id, "", FALSE,
                                     http_exception_handler(401, None))
               /\ UNCHANGED sessions
          ELSE IF GraphFails(outcome)
          THEN /\ apiCall' = ApiCall("query", x_api_key, session_id, outcome,
                                     outcome = "invoke_raises",
                                     ErrorResponse(500, "INTERNAL_ERROR"))
               /\ UNCHANGED sessions
          ELSE LET state == ResultState(outcome, initial_state)
               IN /\ sessions' = [sessions EXCEPT ![session_id] = Some(state)]
                  /\ apiCall' = ApiCall("query", x_api_key, session_id, outcome, TRUE,
                                        build_response(session_id, state))
    /\ UNCHANGED <<apiKeys, dictVars, embVars, readVars, scoreVars, rankVars, normVars, graphVars>>

\* Lines 115-121 of clarify_query on the stored dict.
ClarifiedState(prev_state, user_reply) ==
    StateDict(prev_state.keys \cup {"user_query", "clarification_needed"},
              IF prev_state.user_query # <<>>
              THEN prev_state.user_query \o <<"\n[Clarification]: ", user_reply>>
              ELSE <<user_reply>>,
              FALSE, prev_state.errors)

\* POST /api/v1/query/{session_id}/clarify with a valid body.
ClarifyQuery(x_api_key, session_id, outcome) ==
    /\ sessions[session_id] # None =>
          Len(sessions[session_id][1].user_query) + 2 <= MaxQueryPieces
    /\ IF ~require_api_key(x_api_key, apiKeys)
       THEN /\ apiCall' = ApiCall("clarify", x_api_key, session_id, "", FALSE,
                                  http_exception_handler(401, None))
            /\ UNCHANGED sessions
       ELSE IF sessions[session_id] = None \/ sessions[session_id][1].keys = {}
       THEN /\ apiCall' = ApiCall("clarify", x_api_key, session_id, "", FALSE,
                                  http_exception_handler(404, Some("NOT_FOUND")))
            /\ UNCHANGED sessions
       ELSE LET prev_state == ClarifiedState(sessions[session_id][1], "reply")
            IN IF GraphFails(outcome)
               THEN \* the dict in the store is the one lines 117-121 wrote to
                    /\ sessions' = [sessions EXCEPT ![session_id] = Some(prev_state)]
                    /\ apiCall' = ApiCall("clarify", x_api_key, session_id, outcome,
                                          outcome = "invoke_raises",
                                          ErrorResponse(500, "INTERNAL_ERROR"))
               ELSE LET state == ResultState(outcome, prev_state)
                    IN /\ sessions' = [sessions EXCEPT ![session_id] = Some(state)]
                       /\ apiCall' = ApiCall("clarify", x_api_key, session_id, outcome,
                                             TRUE, build_response(session_id, state))
    /\ UNCHANGED <<apiKeys, dictVars, embVars, readVars, scoreVars, rankVars, normVars, graphVars>>

NextApi ==
    \/ \E x_api_key \in HeaderValues, outcome \in GraphOutcomes,
          req_session_id \in {None} \cup {Some(id) : id \in ClientSessionIds} :
          CreateQuery(x_api_key, req_session_id, outcome)
    \/ \E x_api_key \in HeaderValues, outcome \in GraphOutcomes, session_id \in SessionIds :
          ClarifyQuery(x_api_key, session_id, outcome)

----------------------------------------------------------------------------
(* The agent graph: agentic_core/graph.py, agentic_core/nodes.py *)

END == "__end__"

\* The nodes build_graph adds, in the order it adds them.
GraphNodes == <<"validator", "refiner", "discovery", "ranking", "synthesis">>

entry_point == "validator"

\* The node functions of nodes.py: each body is `pass`, so each returns None,
\* which is no update of the state.
NodeFunction(node, state) == state

\* The conditional edge wired so that every validated query goes on.
check_validity_always(state) == "refiner"

\* check_validity, the conditional edge out of the validator.
check_validity(state) ==
    IF ~state.clarification_needed THEN "refiner" ELSE END

\* The edges out of a node: add_conditional_edges and the four add_edge calls.
Edge(node, state) ==
    CASE node = "validator" -> check_validity(state)
      [] node = "refiner" -> "discovery"
      [] node = "discovery" -> "ranking"
      [] node = "ranking" -> "synthesis"
      [] node = "synthesis" -> END

\* The AgentState values a run is started on: of its keys, user_query,
\* clarification_needed, clarification_question, search_queries and logs.
AgentStates ==
    [user_query : { <<"query">>, <<"reply">>, <<"query", "\n[Clarification]: ", "reply">> },
     clarification_needed : BOOLEAN,
     clarification_question : { None, Some("which?") },
     search_queries : { <<>>, <<"mmlu">> },
     logs : { <<>>, <<"validated">> }]

\* No run of the graph is under way.
GraphIdle ==
    /\ graphPc = "idle"
    /\ graphTrace = <<>>
    /\ graphState = CHOOSE state \in AgentStates : TRUE

\* One step of graph.invoke: the node graphPc names runs, and the edge out of
\* it gives the next.
RunNode(node) ==
    /\ graphPc = node
    /\ graphState' = NodeFunction(node, graphState)
    /\ graphTrace' = Append(graphTrace, node)
    /\ graphPc' = Edge(node, graphState')
    /\ UNCHANGED <<dictVars, embVars, readVars, scoreVars, rankVars, normVars, apiVars>>

NextGraph == \E i \in 1..Len(GraphNodes) : RunNode(GraphNodes[i])

----------------------------------------------------------------------------
Init ==
    /\ sheet = {}
    /\ benchTable = {}
    /\ dictCall = NoDictCall
    /\ index = NoIndex
    /\ disk = NoIndex
    /\ genPc = "idle"
    /\ genIds = <<>>
    /\ genOutcome = "none"
    /\ respWidth = 0
    /\ built = FALSE
    /\ readerIndex = NoIndex
    /\ searchResult = NoSearch
    /\ llmTable = {}
    /\ scoreTable = EmptyBag
    /\ scoreCall = NoScoreCall
    /\ scoresBulk = FALSE
    /\ rankCall = NoRankCall
    /\ normCall = NormArgument(<<>>, <<>>, <<>>)
    /\ apiKeys = {"dev-api-key"}
    /\ ServerIdle
    /\ GraphIdle

Next ==
    \/ SheetEdit
    \/ \E update \in BOOLEAN : IngestBenchmarkDictionary(update)
    \/ (GenerateStep /\ UNCHANGED <<dictVars, readVars, outsideIndex>>)

Spec == Init /\ [][Next]_vars

----------------------------------------------------------------------------
(* ingest_benchmark_dictionary called with records of any origin *)

\* Bound: the number of records of a batch.
MaxBatch == 2

\* The batches: up to MaxBatch records, numbered by position as the reader
\* numbers them; a batch may hold the same benchmark twice.
DictBatches ==
    UNION { [1..n -> SheetRows] : n \in 1..MaxBatch }

NumberRows(rows) ==
    [i \in 1..Len(rows) |->
        [id |-> i - 1,
         name_normalized |-> rows[i].name_normalized,
         variant |-> rows[i].variant]]

\* ingest_benchmark_dictionary(records=records, ..., update=update), up to the
\* call of generate_index.
IngestDictionaryRecords(records, update) ==
    /\ genPc = "idle"
    /\ LET res == DictWrite(benchTable, records, update)
       IN /\ benchTable' = res.table
          /\ dictCall' = DictCallRecord(update, NormalizeBenchRecords(records), res)
          /\ IF res.ok /\ res.n_updated > 0
             THEN /\ genPc' = "embed"
                  /\ genIds' = IdsOf(res.all_records)
             ELSE UNCHANGED <<genPc, genIds>>
    /\ UNCHANGED <<sheet, index, disk, genOutcome, respWidth, built, readVars, outsideIndex>>

NextDictionary ==
    \/ \E rows \in DictBatches, update \in BOOLEAN :
          IngestDictionaryRecords(NumberRows(rows), update)
    \/ (GenerateStep /\ UNCHANGED <<dictVars, readVars, outsideIndex>>)

SpecDictionary == Init /\ [][NextDictionary]_vars

----------------------------------------------------------------------------
(* Ranking requests *)

NextRank == RetrieveAndRank

SpecRank == Init /\ [][NextRank]_vars

\* The calls of normalize_model: one call per behaviour, on any of the labels.
InitNormalize ==
    /\ apiKeys = {"dev-api-key"}
    /\ ServerIdle
    /\ GraphIdle
    /\ sheet = {}
    /\ benchTable = {}
    /\ dictCall = NoDictCall
    /\ index = NoIndex
    /\ disk = NoIndex
    /\ genPc = "idle"
    /\ genIds = <<>>
    /\ genOutcome = "none"
    /\ respWidth = 0
    /\ built = FALSE
    /\ readerIndex = NoIndex
    /\ searchResult = NoSearch
    /\ llmTable = {}
    /\ scoreTable = EmptyBag
    /\ scoreCall = NoScoreCall
    /\ scoresBulk = FALSE
    /\ rankCall = NoRankCall
    /\ \E family \in NormFamilies, keyword \in NormKeywords, date \in NormDates :
          normCall = NormArgument(family, keyword, date)

SpecNormalize == InitNormalize /\ [][NormalizeModel]_vars

\* The query router alone, for each set of keys the server may be started with.
InitApi ==
    /\ apiKeys \in ApiKeySets
    /\ ServerIdle
    /\ GraphIdle
    /\ sheet = {}
    /\ benchTable = {}
    /\ dictCall = NoDictCall
    /\ index = NoIndex
    /\ disk = NoIndex
    /\ genPc = "idle"
    /\ genIds = <<>>
    /\ genOutcome = "none"
    /\ respWidth = 0
    /\ built = FALSE
    /\ readerIndex = NoIndex
    /\ searchResult = NoSearch
    /\ llmTable = {}
    /\ scoreTable = EmptyBag
    /\ scoreCall = NoScoreCall
    /\ scoresBulk = FALSE
    /\ rankCall = NoRankCall
    /\ normCall = NormArgument(<<>>, <<>>, <<>>)

SpecApi == InitApi /\ [][NextApi]_vars

\* One run of the compiled graph, for each state it may be started on.
\* graph.invoke runs the nodes one after the other until END, hence the
\* fairness of SpecGraph.
InitGraph ==
    /\ graphPc = entry_point
    /\ graphTrace = <<>>
    /\ graphState \in AgentStates
    /\ apiKeys = {"dev-api-key"}
    /\ ServerIdle
    /\ sheet = {}
    /\ benchTable = {}
    /\ dictCall = NoDictCall
    /\ index = NoIndex
    /\ disk = NoIndex
    /\ genPc = "idle"
    /\ genIds = <<>>
    /\ genOutcome = "none"
    /\ respWidth = 0
    /\ built = FALSE
    /\ readerIndex = NoIndex
    /\ searchResult = NoSearch
    /\ llmTable = {}
    /\ scoreTable = EmptyBag
    /\ scoreCall = NoScoreCall
    /\ scoresBulk = FALSE
    /\ rankCall = NoRankCall
    /\ normCall = NormArgument(<<>>, <<>>, <<>>)

SpecGraph == InitGraph /\ [][NextGraph]_vars /\ WF_vars(NextGraph)

----------------------------------------------------------------------------
(* The Embedding class used directly, with a second instance reading *)

\* Bound: the k of a search.
MaxK == 2

\* The doc_ids of the records a generate_index call may be given.
DocIdLists == { <<0>>, <<1>>, <<0, 1>> }

\* generate_index(records, ...) is entered: lines 86-89, texts and doc_ids.
GenerateIndexCall(doc_ids) ==
    /\ genPc = "idle"
    /\ genPc' = "embed"
    /\ genIds' = doc_ids
    /\ UNCHANGED <<index, disk, genOutcome, respWidth, built, dictVars, readVars, outsideIndex>>

\* _load_index: faiss.read_index of the file as it is at that moment (a file of
\* kind "partial" is one that faiss.write_index has not finished).
load_index(file) == file

\* Embedding.__init__ in another process.
NewEmbedding ==
    /\ readerIndex' = IF disk.kind # "none" THEN load_index(disk) ELSE NoIndex
    /\ UNCHANGED <<searchResult, dictVars, embVars, outsideIndex>>

Instances == {"emb", "reader"}
IndexOf(inst) == IF inst = "emb" THEN index ELSE readerIndex

\* No artifact existed when the instance was constructed and none of its
\* generate_index calls has returned normally since.
NeverBuilt(inst) == IF inst = "emb" THEN ~built ELSE readerIndex.kind = "none"

Perms(n) == {f \in [1..n -> 1..n] : \A i, j \in 1..n : f[i] = f[j] => i = j}

\* IndexFlatIP.search: the k best labels, best first, padded with -1 when the
\* index holds fewer than k vectors.  `order` is the order of the stored
\* vectors by inner product with the query.
faiss_search(idx, order, k) ==
    [i \in 1..k |-> IF i <= Len(idx.ids) THEN idx.ids[order[i]] ELSE -1]

\* Bound: the inner products of the stored vectors with the query are drawn
\* from 0..MaxSim.
MaxSim == 1

\* The score IndexFlatIP.search reports in a slot it has no vector for
\* (-FLT_MAX): below every inner product.
PadScore == -1

\* IndexFlatIP.search orders the stored vectors by inner product, best first:
\* the orders it may report for the inner products sims.
SearchOrders(sims) ==
    {order \in Perms(Len(sims)) :
        \A i, j \in 1..Len(sims) : i < j => sims[order[i]] >= sims[order[j]]}

\* The scores that go with faiss_search's labels.
faiss_scores(idx, sims, order, k) ==
    [i \in 1..k |-> IF i <= Len(idx.ids) THEN sims[order[i]] ELSE PadScore]

\* search_index with the search asked for every stored vector and one more,
\* whatever k is.
search_index_all(idx, resp, sims, order, k) ==
    IF idx.kind = "none"
    THEN [status |-> "ValueError", requested |-> FALSE, ids |-> <<>>, scores |-> <<>>]
    ELSE LET q == openrouter_embed(resp)
         IN IF ~q.ok
            THEN [status |-> q.error, requested |-> TRUE, ids |-> <<>>, scores |-> <<>>]
            ELSE [status |-> "returned", requested |-> TRUE,
                  ids |-> faiss_search(idx, order, Len(idx.ids) + 1),
                  scores |-> faiss_scores(idx, sims, order, Len(idx.ids) + 1)]

\* search_index(meta, query, k), lines 110-116: what it raises or returns
\* (the arrays scores and ids of the one query).
search_index(idx, resp, sims, order, k) ==
    IF idx.kind = "none"
    THEN [status |-> "ValueError", requested |-> FALSE, ids |-> <<>>, scores |-> <<>>]
    ELSE LET q == openrouter_embed(resp)
         IN IF ~q.ok
            THEN [status |-> q.error, requested |-> TRUE, ids |-> <<>>, scores |-> <<>>]
            ELSE [status |-> "returned", requested |-> TRUE,
                  ids |-> faiss_search(idx, order, k),
                  scores |-> faiss_scores(idx, sims, order, k)]

\* The calls on one instance follow each other; the other process's instance
\* is searched at any time.  An instance whose construction failed on a
\* half-written artifact does not exist.
SearchIndex(inst) ==
    /\ inst = "emb" => genPc = "idle"
    /\ IndexOf(inst).kind # "partial"
    /\ \E k \in 1..MaxK, resp \in ProviderResponses :
       \E sims \in [1..Len(IndexOf(inst).ids) -> 0..MaxSim] :
       \E order \in SearchOrders(sims) :
          LET res == search_index(IndexOf(inst), resp, sims, order, k)
          IN searchResult' =
                [called |-> TRUE, inst |-> inst, never_built |-> NeverBuilt(inst),
                 k |-> k, status |-> res.status, requested |-> res.requested,
                 ids |-> res.ids, scores |-> res.scores]
    /\ UNCHANGED <<readerIndex, dictVars, embVars, outsideIndex>>

NextEmbedding ==
    \/ \E doc_ids \in DocIdLists : GenerateIndexCall(doc_ids)
    \/ (GenerateStep /\ UNCHANGED <<dictVars, readVars, outsideIndex>>)
    \/ NewEmbedding
    \/ \E inst \in Instances : SearchIndex(inst)

SpecEmbedding == Init /\ [][NextEmbedding]_vars

----------------------------------------------------------------------------
(* Ingestion of the model metadata and of the scores *)

\* Bound: the number of rows of benchmark_scores.
MaxScoreRows == 2

\* The dictionaries the score ingestion runs against, each as the batch that
\* ingest_benchmark_dictionary(update=False) stored.
BenchCatalogs ==
    { << [id |-> 0, name_normalized |-> <<"a">>, variant |-> None] >>,
      << [id |-> 0, name_normalized |-> <<"a">>, variant |-> None],
         [id |-> 1, name_normalized |-> <<"a">>, variant |-> Some(<<"#">>)] >>,
      << [id |-> 0, name_normalized |-> <<"a">>, variant |-> Some(<<"#">>)],
         [id |-> 1, name_normalized |-> <<"a", "#">>, variant |-> None] >> }

LLMRecord(name, provider) ==
    [name_normalized |-> name, provider |-> provider, quantization |-> None]

LLMBatches ==
    { << LLMRecord(<<"m">>, "openai"), LLMRecord(<<"n">>, "openai") >>,
      << LLMRecord(<<"m">>, "openai"), LLMRecord(<<"m">>, "azure") >>,
      << LLMRecord(<<"m">>, "openai"), LLMRecord(<<"m">>, "openai") >> }

ScoreRecord(model, variant, url, date) ==
    [original_model_name |-> model,
     original_benchmark_name |-> <<"a">>,
     original_benchmark_variant |-> variant,
     source_url |-> url,
     date_published |-> date,
     benchmark_id |-> NoId,
     model_id |-> NoId]

ScoreRecords ==
    { ScoreRecord(<<"m">>, None, "u1", None),
      ScoreRecord(<<"m">>, None, "u2", None),
      ScoreRecord(<<"m">>, None, "u1", Some("2024-01-01")),
      ScoreRecord(<<"m">>, Some(<<"#">>), "u1", None),
      ScoreRecord(<<" ", "n">>, None, "u1", None) }

ScoreBatches ==
    {<<r>> : r \in ScoreRecords} \cup {<<r, t>> : r, t \in ScoreRecords}

\* ingest_llm_metadata; by the note of ingest_benchmark_scores (lines 119-120)
\* the metadata is ingested before the scores are.
IngestLLMMetadata(records, update) ==
    /\ ~scoreCall.called
    /\ scoreTable = EmptyBag
    /\ llmTable' = LLMWrite(llmTable, records, update)
    /\ UNCHANGED <<scoreTable, scoreCall, scoresBulk, outsideScores>>

IngestBenchmarkScores(records, update, skip_fk) ==
    /\ ~scoreCall.called
    /\ LET res == ingest_benchmark_scores(records, benchTable, llmTable,
                                          scoreTable, update, skip_fk)
       IN /\ BagCardinality(res.table) <= MaxScoreRows
          /\ scoreTable' = res.table
          /\ scoreCall' = [called |-> TRUE, update |-> update, skip_fk |-> skip_fk,
                           ok |-> res.ok, input |-> records, records |-> res.records]
    /\ scoresBulk' = (scoresBulk \/ ~update)
    /\ UNCHANGED <<llmTable, outsideScores>>

\* The caller is done with the call's records.
ScoresReturn ==
    /\ scoreCall.called
    /\ scoreCall' = NoScoreCall
    /\ UNCHANGED <<llmTable, scoreTable, scoresBulk, outsideScores>>

InitScores ==
    /\ sheet = {}
    /\ \E batch \in BenchCatalogs : benchTable = DictWrite({}, batch, FALSE).table
    /\ dictCall = NoDictCall
    /\ index = NoIndex
    /\ disk = NoIndex
    /\ genPc = "idle"
    /\ genIds = <<>>
    /\ genOutcome = "none"
    /\ respWidth = 0
    /\ built = FALSE
    /\ readerIndex = NoIndex
    /\ searchResult = NoSearch
    /\ llmTable = {}
    /\ scoreTable = EmptyBag
    /\ scoreCall = NoScoreCall
    /\ scoresBulk = FALSE
    /\ rankCall = NoRankCall
    /\ normCall = NormArgument(<<>>, <<>>, <<>>)
    /\ apiKeys = {"dev-api-key"}
    /\ ServerIdle
    /\ GraphIdle

NextScores ==
    \/ \E records \in LLMBatches, update \in BOOLEAN : IngestLLMMetadata(records, update)
    \/ \E records \in ScoreBatches, update \in BOOLEAN, skip_fk \in BOOLEAN :
          IngestBenchmarkScores(records, update, skip_fk)
    \/ ScoresReturn

SpecScores == InitScores /\ [][NextScores]_vars

----------------------------------------------------------------------------
(* Properties of the dictionary ingestion *)

TableIds == {r.id : r \in benchTable}

\* C2: once a call of ingest_benchmark_dictionary has returned or failed (no
\* generate_index in progress), the IDs held by the vector index, in memory
\* and on disk, are the benchmark IDs of the dictionary table.
C2_IndexMatchesDictionary ==
    genPc = "idle" => (Range(index.ids) = TableIds /\ Range(disk.ids) = TableIds)

SameBenchmark(r, s) ==
    r.name_normalized = s.name_normalized /\ r.variant = s.variant

\* C7: after the sheet has been read and ingested with update=True, every
\* record read carries the ID its benchmark has in the table, and no record
\* carries an ID that a different benchmark of the table holds.
C7_StableEntityIds ==
    (dictCall.called /\ dictCall.update) =>
        \A i \in 1..Len(dictCall.records) : \A r \in benchTable :
           /\ SameBenchmark(dictCall.records[i], r) => dictCall.records[i].id = r.id
           /\ dictCall.records[i].id = r.id => SameBenchmark(dictCall.records[i], r)

\* C12: no two rows of the dictionary table share (name_normalized, variant),
\* a NULL variant included.
C12_BenchmarkUnique ==
    \A r, t \in benchTable : SameBenchmark(r, t) => r = t

----------------------------------------------------------------------------
(* Properties of the Embedding class *)

\* C3: a reader never loads a half-written artifact, and after a failed
\* write the in-memory index and the artifact on disk are the same index.
C3_AtomicPublish ==
    /\ readerIndex.kind # "partial"
    /\ (genPc = "idle" /\ genOutcome = "RuntimeError") => index = disk

\* C9: when the provider answers a build with vectors of a width other than
\* EMBED_DIM, generate_index ends with an error in that step, and the
\* in-memory index and the artifact on disk are what they were.
C9_DimensionMismatchFailsFast ==
    [][(genPc = "embed" /\ genPc' # "embed"
            /\ respWidth' # 0 /\ respWidth' # EMBED_DIM)
          => (genPc' = "idle" /\ genOutcome' = "ValueError"
                 /\ index' = index /\ disk' = disk)]_vars

\* A build over a published index was refused for its vectors' width.
C9_Witness ==
    /\ genPc = "idle" /\ genOutcome = "ValueError"
    /\ respWidth # 0 /\ respWidth # EMBED_DIM
    /\ index.kind = "index" /\ disk = index

\* C10: a search on an instance that was constructed without an artifact and
\* has had no successful generate_index raises an error, before any request
\* to the embedding provider, and returns nothing.
C10_IndexUnavailable ==
    (searchResult.called /\ searchResult.never_built)
        => (searchResult.status = "ValueError" /\ ~searchResult.requested)

----------------------------------------------------------------------------
\* C11: a search that returns gives at most k entries, and no entry has a
\* score lower than an entry after it.
C11_SearchResultShape ==
    (searchResult.called /\ searchResult.status = "returned") =>
        /\ Len(searchResult.ids) <= searchResult.k
        /\ Len(searchResult.scores) = Len(searchResult.ids)
        /\ \A i, j \in 1..Len(searchResult.scores) :
              i < j => searchResult.scores[i] >= searchResult.scores[j]

\* A search with k = 2 returned two stored vectors of different scores; and
\* one with k = 1 on an index of two vectors returned one.
C11_Witness ==
    /\ searchResult.called /\ searchResult.status = "returned"
    /\ searchResult.k = 2
    /\ Len(IndexOf(searchResult.inst).ids) = 2
    /\ searchResult.scores[1] > searchResult.scores[2]
    /\ searchResult.scores[2] > PadScore

----
(* Properties of the score ingestion *)

\* What record rec alone resolves to against the tables as they are.
Alone(rec) == ResolveLoop(<<Unresolved(rec)>>, 1, benchTable, llmTable, FALSE)

\* C1: after a call with skip_fk=False, every record of the batch whose
\* benchmark and model are in the lookup tables is in the score table,
\* whatever the other records of the batch are.
C1_PartialSuccess ==
    (scoreCall.called /\ ~scoreCall.skip_fk) =>
        \A i \in 1..Len(scoreCall.input) :
            Alone(scoreCall.input[i]).ok =>
                ScoreExists(scoreTable, Alone(scoreCall.input[i]).records[1])

\* C6: a call with skip_fk=False that resolved its records gave each the id
\* of the benchmark whose (name_normalized, variant) is the record's
\* normalized name and variant, and the id of the one model of that
\* normalized name: no model of another (name_normalized, provider,
\* quantization) answers to the same record.
C6_ExactKeyResolution ==
    (scoreCall.called /\ ~scoreCall.skip_fk /\ scoreCall.ok) =>
        \A i \in 1..Len(scoreCall.records) :
            LET rec == scoreCall.records[i]
            IN /\ \E b \in benchTable :
                     /\ b.id = rec.benchmark_id
                     /\ b.name_normalized = strip(rec.original_benchmark_name)
                     /\ b.variant = rec.original_benchmark_variant
               /\ \A e \in llmTable :
                     e.name_normalized = strip(rec.original_model_name)
                         => e.id = rec.model_id

\* C13: no two rows of the model table share
\* (name_normalized, provider, quantization), a NULL quantization included.
C13_ModelUnique ==
    \A r, t \in llmTable :
        (/\ r.name_normalized = t.name_normalized
         /\ r.provider = t.provider
         /\ r.quantization = t.quantization) => r = t

\* C14: after a call of ingest_benchmark_scores, whether it succeeded or
\* failed, the caller's records are what they were before the call.
C14_InputUnchanged ==
    scoreCall.called => scoreCall.records = scoreCall.input

\* C15: every row a call of ingest_benchmark_scores stores carries the
\* original_model_name, original_benchmark_name and
\* original_benchmark_variant of the input record it was stored for.
C15_AuditFieldsPreserved ==
    [][\A row \in BagToSet(scoreTable') :
          CopiesIn(row, scoreTable') > CopiesIn(row, scoreTable) =>
              \E i \in 1..Len(scoreCall'.input) :
                 LET rec == scoreCall'.input[i]
                 IN /\ row.original_model_name = rec.original_model_name
                    /\ row.original_benchmark_name = rec.original_benchmark_name
                    /\ row.original_benchmark_variant = rec.original_benchmark_variant
                    /\ row.source_url = rec.source_url
                    /\ row.date_published = rec.date_published]_vars

\* A record whose raw model name is not its normalized name was resolved and
\* stored under the raw name.
C15_Witness ==
    /\ scoreCall.called /\ scoreCall.ok /\ ~scoreCall.skip_fk
    /\ \E row \in BagToSet(scoreTable) :
          /\ row.original_model_name = <<" ", "n">>
          /\ \E e \in llmTable :
                e.id = row.model_id /\ e.name_normalized = <<"n">>

SamePair(r, t) == r.model_id = t.model_id /\ r.benchmark_id = t.benchmark_id

\* C8: the score table holds at most one row per (model_id, benchmark_id).
C8_OneRowPerPair ==
    \A r, t \in BagToSet(scoreTable) :
        SamePair(r, t) => (r = t /\ CopiesIn(r, scoreTable) = 1)

----------------------------------------------------------------------------
(* Ranking *)

RankedListNames == {"top_performance", "balanced", "budget"}

\* C5: a ranking request in the calibration case (A and B have a score on the
\* target X and on the bridge Y, C has a score on Y only) returns lists in
\* which model C carries, for benchmark X, the score
\* C.Y + mean(A.X - A.Y, B.X - B.Y) flagged is_estimated.  The scores are
\* compared doubled, to stay in the integers.
C5_BridgeCalibration ==
    LET session == rankCall.session
        bridgeCase ==
            /\ \A m \in {ModelA, ModelB} : \A b \in RankBenchmarks : session[<<m, b>>] > 0
            /\ session[<<ModelC, BenchY>>] > 0
            /\ session[<<ModelC, BenchX>>] = 0
        twiceEstimate ==
            2 * session[<<ModelC, BenchY>>]
            + (session[<<ModelA, BenchX>>] - session[<<ModelA, BenchY>>])
            + (session[<<ModelB, BenchX>>] - session[<<ModelB, BenchY>>])
    IN (rankCall.called /\ bridgeCase) =>
          /\ rankCall.result # None
          /\ \E l \in RankedListNames :
                \E i \in DOMAIN rankCall.result[1][l] :
                   LET entry == rankCall.result[1][l][i]
                   IN /\ entry.model_id = ModelC
                      /\ \E j \in DOMAIN entry.benchmark_results :
                            LET br == entry.benchmark_results[j]
                            IN /\ br.benchmark_id = BenchX
                               /\ br.is_estimated
                               /\ 2 * br.score = twiceEstimate

----------------------------------------------------------------------------
(* normalize_model *)

\* C16: every call of normalize_model returns, and a call with an empty or
\* whitespace-only label returns the sentinel: canonical id "n/a", provider
\* "unknown".
C16_BlankGivesSentinel ==
    normCall.called =>
        /\ normCall.returned # None
        /\ strip(normCall.raw_name) = <<>> =>
              /\ normCall.returned[1].full_id = NotAvailable
              /\ normCall.returned[1].provider_val = Unknown

\* C17: when the raw label of a call matches a pattern of PROVIDER_PATTERNS
\* (ignoring case), the provider returned is not empty and is the provider of
\* the first entry of the table, in table order, whose pattern matches.
C17_FirstEntryWins ==
    normCall.called =>
        \A k \in 1..Len(PROVIDER_PATTERNS) :
            ( /\ PatternFound(normCall.raw_name, PROVIDER_PATTERNS[k].alts)
              /\ \A j \in 1..(k - 1) :
                    ~PatternFound(normCall.raw_name, PROVIDER_PATTERNS[j].alts) )
            => /\ normCall.returned[1].provider_val # <<>>
               /\ normCall.returned[1].provider_val = PROVIDER_PATTERNS[k].provider

\* A call whose label matches two entries of the table that name different
\* providers, and that returned the provider of the earlier one.
C17_Witness ==
    /\ normCall.called
    /\ \E j, k \in 1..Len(PROVIDER_PATTERNS) :
          /\ j < k
          /\ PROVIDER_PATTERNS[j].provider # PROVIDER_PATTERNS[k].provider
          /\ PatternFound(normCall.raw_name, PROVIDER_PATTERNS[j].alts)
          /\ PatternFound(normCall.raw_name, PROVIDER_PATTERNS[k].alts)
          /\ normCall.returned[1].provider_val = PROVIDER_PATTERNS[j].provider

\* The reasoning class as the claim words it: o[1-9] anywhere in the label,
\* or deepseek-r1, in either case of the letters.
ClaimedReasoningClass(raw_name) ==
    \E p \in 1..Len(raw_name) :
        \/ ToLower(raw_name[p]) = "o" /\ At(raw_name, p + 1) \in DigitChars \ {"0"}
        \/ /\ StartsAtIgnoreCase(raw_name, p, <<"d", "e", "e", "p", "s", "e", "e", "k">>)
           /\ \/ StartsAtIgnoreCase(raw_name, p + 8, <<"r", "1">>)
              \/ /\ At(raw_name, p + 8) \in {"-", " "}
                 /\ StartsAtIgnoreCase(raw_name, p + 9, <<"r", "1">>)

\* The variant a label gets by the keywords alone: the first of thinking,
\* instruct, preview that stands in the label as a word, else "standard".
KeywordVariant(raw_name) ==
    LET found == {i \in 1..Len(VariantKeywords) :
                     \E p \in 1..Len(raw_name) : KeywordAt(raw_name, p, VariantKeywords[i])}
    IN IF found = {} THEN Standard ELSE VariantKeywords[Least(found)]

Occurs(g, s) == \E p \in 1..Len(s) : StartsAt(s, p, g)

\* The form YYYY-MM-DD.
IsIsoDate(d) == Len(d) = 10 /\ IsoDateAt(d, 1)

\* C19: the date of a label is taken by the first, in the order (YYYYMMDD),
\* (YYYY-MM-DD), bare YYYY-MM-DD, (M/YY or M/YYYY), of the patterns that
\* match; a date taken has the form YYYY-MM-DD and is no longer in the
\* residual name.
C19_DateExtraction ==
    (normCall.called /\ normCall.raw_name # <<>>) =>
        LET l == normCall.locals[1]
            raw == normCall.raw_name
        IN /\ (DateMatches1(raw) \cup DateMatches2(raw)
                 \cup DateMatches3(raw) \cup DateMatches4(raw) # {})
                 <=> (l.date_val # <<>>)
           /\ l.date_val # <<>> => IsIsoDate(l.date_val)
           /\ DateMatches1(raw) # {} =>
                 /\ l.date_val = LET g == FirstMatch(raw, DateMatches1(raw))
                                 IN Slice(g, 2, 6) \o <<"-">> \o Slice(g, 6, 8)
                                       \o <<"-">> \o Slice(g, 8, 10)
                 /\ ~Occurs(FirstMatch(raw, DateMatches1(raw)), l.varied_name)
           /\ (DateMatches1(raw) = {} /\ DateMatches2(raw) # {}) =>
                 /\ l.date_val = Slice(FirstMatch(raw, DateMatches2(raw)), 2, 12)
                 /\ ~Occurs(FirstMatch(raw, DateMatches2(raw)), l.varied_name)
           /\ (DateMatches1(raw) = {} /\ DateMatches2(raw) = {} /\ DateMatches3(raw) # {}) =>
                 /\ l.date_val = FirstMatch(raw, DateMatches3(raw))
                 /\ ~Occurs(FirstMatch(raw, DateMatches3(raw)), l.varied_name)

\* C20: base_id holds neither the variant keyword nor the date of a label:
\* the label of a model with a variant keyword, a date or a date-like suffix
\* after the model's name gets the base_id of the name alone.
C20_BaseIdOmitsVariantAndDate ==
    (normCall.called /\ strip(normCall.family) # <<>>) =>
        normCall.returned[1].base_id = normalize_model(normCall.family).base_id

\* C21: the base_id a call returns is made of lower-case letters and digits
\* in runs that single hyphens separate: no other character, no hyphen at
\* either end, no two hyphens in a row (the sentinel of the empty label
\* left aside).
C21_BaseIdFormat ==
    (normCall.called /\ normCall.raw_name # <<>>) =>
        LET id == normCall.returned[1].base_id
        IN /\ id # <<>>
           /\ \A i \in 1..Len(id) : id[i] \in LowerChars \cup DigitChars \cup {"-"}
           /\ id[1] # "-" /\ id[Len(id)] # "-"
           /\ \A i \in 1..(Len(id) - 1) : ~(id[i] = "-" /\ id[i + 1] = "-")

\* C22: when the raw label of a call matches no pattern of PROVIDER_PATTERNS,
\* the provider returned is the first run of letters and digits of the
\* label, wherever it starts, in lower case.
C22_FallbackFirstToken ==
    (normCall.called /\ MatchingEntries(normCall.raw_name) = {}) =>
        LET raw == normCall.raw_name
            starts == {p \in 1..Len(raw) :
                          raw[p] \in LowerChars \cup UpperChars \cup DigitChars}
        IN starts # {} =>
              normCall.returned[1].provider_val =
                  lower(FirstWord(SubSeq(raw, Least(starts), Len(raw))))

----------------------------------------------------------------------------
(* The query router *)

C25_SessionRoundTrip ==
    /\ (apiCall.called /\ apiCall.endpoint = "query" /\ apiCall.response.status_code = 200) =>
          /\ apiCall.response.session_id # ""
          /\ sessions[apiCall.response.session_id] # None
    /\ (apiCall.called /\ apiCall.endpoint = "clarify" /\ apiCall.stored_before
            /\ require_api_key(apiCall.x_api_key, apiKeys) /\ ~GraphFails(apiCall.outcome)) =>
          /\ apiCall.response.code # "NOT_FOUND"
          /\ apiCall.response.session_id = apiCall.session_id
          /\ apiCall.response.status \in {"ok", "needs_clarification", "error"}

\* C30: a clarify_query in which building or invoking the graph fails leaves
\* the stored state of the session as it was.
C30_ClarifyAllOrNothing ==
    [][(apiCall'.called /\ apiCall'.endpoint = "clarify" /\ GraphFails(apiCall'.outcome))
          => sessions' = sessions]_vars

----------------------------------------------------------------------------
(* The agent graph *)

\* C26: a run of the compiled graph starts at the validator, no node runs
\* twice, the run comes to END, and the nodes that have run by then are the
\* validator alone when it left clarification_needed true, and validator,
\* refiner, discovery, ranking, synthesis in this order otherwise.
C26_OrchestrationOrder ==
    /\ [](/\ graphTrace # <<>> => graphTrace[1] = "validator"
          /\ \A i, j \in 1..Len(graphTrace) : graphTrace[i] = graphTrace[j] => i = j
          /\ graphPc = END =>
                graphTrace = IF graphState.clarification_needed
                             THEN <<"validator">>
                             ELSE <<"validator", "refiner", "discovery", "ranking", "synthesis">>)
    /\ <>(graphPc = END)

\* A run on a state that asks for clarification has ended.
C26_Witness ==
    /\ graphPc = END
    /\ graphState.clarification_needed
    /\ graphTrace = <<"validator">>

----------------------------------------------------------------------------
(* Repeated ingestion, and what a search returns *)

\* C27: an update-mode ingest_benchmark_dictionary on the records of the
\* update-mode call before it inserts no row and leaves the table as it was,
\* and does not call generate_index: no request to the embedding provider,
\* no rewrite of the index.
C27_DictionaryIdempotent ==
    (dictCall.called /\ dictCall.repeated) =>
        /\ ~dictCall.table_changed
        /\ genPc = "idle"

\* The second of two update calls on the same records has returned, and the
\* table holds the rows of the first.
C27_Witness ==
    /\ dictCall.called
    /\ dictCall.repeated
    /\ dictCall.ok
    /\ Len(dictCall.records) > 1
    /\ \A i \in 1..Len(dictCall.records) : dictCall.records[i] \in benchTable

\* C28: after an update-mode ingest_benchmark_scores that returned, every
\* record of the input is in the table: some row carries its model name, its
\* benchmark name and variant, its source_url and its date_published.
C28_NoScoreRecordLost ==
    (scoreCall.called /\ scoreCall.update /\ scoreCall.ok) =>
        \A i \in 1..Len(scoreCall.input) :
            \E r \in BagToSet(scoreTable) :
                /\ r.original_model_name = scoreCall.input[i].original_model_name
                /\ r.original_benchmark_name = scoreCall.input[i].original_benchmark_name
                /\ r.original_benchmark_variant = scoreCall.input[i].original_benchmark_variant
                /\ r.source_url = scoreCall.input[i].source_url
                /\ r.date_published = scoreCall.input[i].date_published

\* C29: every id a search returns is the id of a record that was passed to a
\* build of the index; the placeholder -1 of an empty slot is not returned,
\* also when k is larger than the number of the indexed entries.
C29_SearchReturnsIndexedIds ==
    (searchResult.called /\ searchResult.status = "returned") =>
        \A i \in 1..Len(searchResult.ids) :
            \E doc_ids \in DocIdLists : searchResult.ids[i] \in Range(doc_ids)

====
